---- MODULE Spec2Model ----
(***************************************************************************)
(* Model of src/test-api-python.py: the WSManager event listener (a main   *)
(* thread calling its methods, a background thread delivering the          *)
(* websocket callbacks) and the workflow driver main() /                   *)
(* run_complete_workflow_test() / test_analyze_project().                  *)
(*                                                                         *)
(* Two specifications share the same state and the same method steps:      *)
(*   Spec     the program as it runs: main() from the health probe to the  *)
(*            process exit, against a nondeterministic server;             *)
(*   SpecApi  one WSManager object whose methods are called in any order   *)
(*            by the main thread, against the same background thread.      *)
(***************************************************************************)
EXTENDS Naturals, Integers, Sequences, FiniteSets

VARIABLES
    pc,           \* position of the main thread
    ws,           \* WSManager.ws: "None" or "app" (a WebSocketApp)
    connected,    \* WSManager.connected
    messages,     \* WSManager.messages (queue.Queue), head first
    channel,      \* the WebSocketApp's transport as run by the background thread
    sent,         \* envelopes handed to ws.send, in order
    delivered,    \* history: payloads handed to on_message, in order
    nReports,     \* history: "Failed to parse WebSocket message" reports
    handled,      \* history: what handle_message did with each parsed message
    callback,     \* where self.ws's thread is in on_message: "idle" outside
                  \* it, after the put the payload handle_message is called on
    old,          \* the WebSocketApps a later connect() replaced as self.ws,
                  \* whose threads run on: each one's channel and callback
    ws_manager,   \* run_complete_workflow_test's local: "obj" or "None"
    polls,        \* connect(): iterations of the wait loop done
    connectRet,   \* connect()'s return value: "none", "True", "False"
    retries,      \* test_analyze_project: retries
    completed,    \* test_analyze_project: completed
    lastPoll,     \* history: what the last polling iteration's fetch gave
    warns,        \* history: warnings printed by the main thread
    events,       \* history: listener methods called and HTTP requests issued
    exc,          \* the exception in flight or last raised ("none": none)
    exitCode,     \* process exit code, -1 while running
    http,         \* history: the last http_request call, its reply and result
    drained,      \* get_messages(): its local list
    gmSnap,       \* history: Len(delivered) when get_messages() was called
    taken,        \* history: number of messages get_messages() has removed
    last          \* history: the last listener method called and how it ended

vars == <<pc, ws, connected, messages, channel, sent, delivered, nReports, handled,
         callback, old,
          ws_manager, polls, connectRet, retries, completed, lastPoll, warns,
          events, exc, exitCode, http, drained, gmSnap, taken,
          last>>

wsVars ==
    <<ws, connected, messages, channel, sent, delivered, nReports, handled,
      callback, old>>
drvVars == <<ws_manager, retries, completed, lastPoll, warns, exc, exitCode, http>>
gmVars == <<drained, gmSnap, taken>>

----------------------------------------------------------------------------
(* Bounds of the model *)

\* payloads the server pushes during one run
MaxMsgs == 2
\* envelopes handed to ws.send by the SpecApi caller
MaxSent == 1
\* connect() calls on one listener
MaxApps == 2

(* Program constants *)

\* for _ in range(10)
ConnectPolls == 10
\* max_retries = 60
max_retries == 60

\* the id of the project the workflow creates (project["id"])
project_id == "p1"

----------------------------------------------------------------------------
(* Inbound payloads and json.loads *)

\* the payloads pushed: text that is no JSON, JSON that is no object, a
\* message the classifier handles, one whose type it does not know, and one
\* it raises on
Payloads == {"not json", "[]", "{\"type\":\"progress\"}",
             "{\"type\":\"subscribe-ack\"}",
             "{\"type\":\"progress\",\"data\":null}"}

\* json.loads(message): whether it returns (a JSONDecodeError otherwise)
json_parses(p) == p # "not json"

\* a JSON value. isdict: it is a JSON object (a Python dict); type:
\* message.get('type'); data, changes: the value under that key ("absent":
\* no such key, "null": None)
Value(isdict, type, data, changes) ==
    [isdict |-> isdict, type |-> type, data |-> data, changes |-> changes]

\* json.loads(message): the value, for a payload that parses
json_loads(p) ==
    CASE p = "[]" -> Value(FALSE, "None", "absent", "absent")
      [] p = "{}" -> Value(TRUE, "None", "absent", "absent")
      [] p = "{\"type\":\"progress\"}" ->
            Value(TRUE, "progress", "absent", "absent")
      [] p = "{\"type\":\"progress\",\"data\":null}" ->
            Value(TRUE, "progress", "null", "absent")
      [] p = "{\"type\":\"diff\",\"changes\":null}" ->
            Value(TRUE, "diff", "absent", "null")
      [] OTHER -> Value(TRUE, "subscribe-ack", "absent", "absent")

\* handle_message(msg): whether it raises. message.get on a value that is
\* no dict is an AttributeError; in the progress branch
\* message.get('data', {}) is the key's value when the key is there, and
\* progress.get on None is an AttributeError; in the diff branch
\* len(message.get('changes', [])) is a TypeError on None.
handle_message_raises(msg) ==
    \/ ~msg.isdict
    \/ msg.type = "progress" /\ msg.data = "null"
    \/ msg.type = "diff" /\ msg.changes = "null"

\* handle_message(msg): the branch taken ("ignored": no branch, no output)
handle_message(msg) ==
    IF msg.type \in {"progress", "log", "diff"} THEN msg.type ELSE "ignored"

\* self.messages.put(msg)
QueuePutLifo(q, m) == <<m>> \o q
QueuePut(q, m) == Append(q, m)

\* self.messages.get() on a non-empty queue: <<item, rest>>
QueueGetLast(q) == <<q[Len(q)], SubSeq(q, 1, Len(q) - 1)>>
QueueGet(q) == <<Head(q), Tail(q)>>

\* on_message's effect on the queue: put comes before handle_message, so a
\* message whose handling raises is queued all the same
on_message_put_after_handle(q, p) ==
    IF json_parses(p) /\ ~handle_message_raises(json_loads(p))
    THEN QueuePut(q, json_loads(p)) ELSE q
on_message_queue(q, p) ==
    IF json_parses(p) THEN QueuePut(q, json_loads(p)) ELSE q

\* on_message's call of handle_message, made for a payload that parsed, right
\* after the put and before the callback returns: the branch taken, or
\* "raised"
on_message_dispatch(h, p) ==
    IF ~json_parses(p) THEN h
    ELSE IF handle_message_raises(json_loads(p)) THEN Append(h, "raised")
    ELSE Append(h, handle_message(json_loads(p)))

\* on_message's except branch is taken: json.loads or handle_message raised
on_message_reports(p) ==
    ~json_parses(p) \/ handle_message_raises(json_loads(p))

----------------------------------------------------------------------------
(* The background thread: ws.run_forever delivering the callbacks *)

\* the process is running (the daemon thread dies with it)
Alive == pc # "exited"

\* the flag on_close assigns
on_close_flag_true == TRUE
on_close_flag == FALSE

\* on_open(ws): the transport finished its handshake
on_open ==
    /\ Alive
    /\ callback = "idle"
    /\ channel = "connecting"
    /\ channel' = "open"
    /\ connected' = TRUE
    /\ UNCHANGED <<pc, ws, messages, sent, delivered, nReports, handled,
                   callback, old, polls,
                   connectRet, drvVars, events, gmVars, last>>

\* the transport fails or the peer closes: the socket is gone, on_error may
\* print, and the on_close callback is still to come
TransportDrop ==
    /\ Alive
    /\ channel \in {"connecting", "open"}
    /\ channel' = "closing"
    /\ UNCHANGED <<pc, ws, connected, messages, sent, delivered, nReports,
                   handled, callback, old,
                   polls, connectRet, drvVars, events, gmVars, last>>

\* on_close(ws, code, msg): run_forever's teardown, after a drop or after
\* ws.close()
on_close ==
    /\ Alive
    /\ callback = "idle"
    /\ channel = "closing"
    /\ channel' = "closed"
    /\ connected' = on_close_flag
    /\ UNCHANGED <<pc, ws, messages, sent, delivered, nReports, handled,
                   callback, old, polls,
                   connectRet, drvVars, events, gmVars, last>>

\* on_message(ws, message), up to the return of self.messages.put(msg): a
\* payload that does not parse goes to the except branch, which prints and
\* returns; one that parses is queued, and handle_message is still to run
on_message ==
    /\ Alive
    /\ callback = "idle"
    /\ channel = "open"
    /\ Len(delivered) < MaxMsgs
    /\ \E p \in Payloads :
         /\ delivered' = Append(delivered, p)
         /\ messages' = on_message_queue(messages, p)
         /\ IF json_parses(p)
            THEN callback' = p /\ nReports' = nReports
            ELSE callback' = "idle" /\ nReports' = nReports + 1
    /\ UNCHANGED <<pc, ws, connected, channel, sent, handled, old, polls,
                   connectRet, drvVars, events, gmVars, last>>

\* on_message, from self.handle_message(msg) to its return: the message is
\* classified; when that raises, the except branch prints
on_message_handle ==
    /\ Alive
    /\ callback # "idle"
    /\ handled' = on_message_dispatch(handled, callback)
    /\ nReports' = IF on_message_reports(callback) THEN nReports + 1
                   ELSE nReports
    /\ callback' = "idle"
    /\ UNCHANGED <<pc, ws, connected, messages, channel, sent, delivered, old,
                   polls, connectRet, drvVars, events, gmVars, last>>

Background ==
    on_open \/ TransportDrop \/ on_close \/ on_message \/ on_message_handle

\* The callbacks of a WebSocketApp that connect() replaced: they are closures
\* over the same listener, so they assign the same flag and fill the same
\* queue, each app on its own thread.
OldStep(i, ch, cb) == old' = [old EXCEPT ![i] = [channel |-> ch, callback |-> cb]]

old_on_open ==
    \E i \in 1..Len(old) :
      /\ old[i].callback = "idle"
      /\ old[i].channel = "connecting"
      /\ OldStep(i, "open", "idle")
      /\ connected' = TRUE
      /\ UNCHANGED <<pc, ws, messages, channel, sent, delivered, nReports,
                     handled, callback, polls, connectRet, drvVars, events,
                     gmVars, last>>

old_TransportDrop ==
    \E i \in 1..Len(old) :
      /\ old[i].channel \in {"connecting", "open"}
      /\ OldStep(i, "closing", old[i].callback)
      /\ UNCHANGED <<pc, ws, connected, messages, channel, sent, delivered,
                     nReports, handled, callback, polls, connectRet, drvVars,
                     events, gmVars, last>>

old_on_close ==
    \E i \in 1..Len(old) :
      /\ old[i].callback = "idle"
      /\ old[i].channel = "closing"
      /\ OldStep(i, "closed", "idle")
      /\ connected' = on_close_flag
      /\ UNCHANGED <<pc, ws, messages, channel, sent, delivered, nReports,
                     handled, callback, polls, connectRet, drvVars, events,
                     gmVars, last>>

old_on_message ==
    \E i \in 1..Len(old) :
      /\ old[i].callback = "idle"
      /\ old[i].channel = "open"
      /\ Len(delivered) < MaxMsgs
      /\ \E p \in Payloads :
           /\ delivered' = Append(delivered, p)
           /\ messages' = on_message_queue(messages, p)
           /\ IF json_parses(p)
              THEN OldStep(i, "open", p) /\ nReports' = nReports
              ELSE OldStep(i, "open", "idle") /\ nReports' = nReports + 1
      /\ UNCHANGED <<pc, ws, connected, channel, sent, handled, callback,
                     polls, connectRet, drvVars, events, gmVars, last>>

old_on_message_handle ==
    \E i \in 1..Len(old) :
      /\ old[i].callback # "idle"
      /\ handled' = on_message_dispatch(handled, old[i].callback)
      /\ nReports' = IF on_message_reports(old[i].callback) THEN nReports + 1
                     ELSE nReports
      /\ OldStep(i, old[i].channel, "idle")
      /\ UNCHANGED <<pc, ws, connected, messages, channel, sent, delivered,
                     callback, polls, connectRet, drvVars, events, gmVars,
                     last>>

OldBackground ==
    \/ old_on_open \/ old_TransportDrop \/ old_on_close
    \/ old_on_message \/ old_on_message_handle

----------------------------------------------------------------------------
(* WSManager's methods, as steps of the main thread. Each leaves pc to its
   caller: the workflow driver or the SpecApi caller. *)

\* history of one listener method call: the method, how it ended ("ok": it
\* returned, otherwise the exception's message) and whether the call before
\* it was of the same method
Call(op, outcome) ==
    last' = [op |-> op, outcome |-> outcome, again |-> (last.op = op)]

\* self.ws.send(data): WebSocketApp.send raises
\* WebSocketConnectionClosedException once the socket is gone
ws_send_outcome ==
    IF channel = "open" THEN "ok" ELSE "Connection is already closed."

\* subscribe(project_id): how it ends
subscribe_outcome_unguarded == ws_send_outcome
subscribe_outcome ==
    IF ~connected THEN "WebSocket not connected" ELSE ws_send_outcome

\* unsubscribe(project_id): how it ends
unsubscribe_outcome_raising ==
    IF ~connected THEN "WebSocket not connected" ELSE ws_send_outcome
unsubscribe_outcome ==
    IF ~connected THEN "ok" ELSE ws_send_outcome

\* unsubscribe(project_id): whether ws.send is reached
unsubscribe_sends == connected

Envelope(type, pid) == [type |-> type, projectId |-> pid]

subscribe(pid) ==
    /\ sent' = IF subscribe_outcome = "ok"
               THEN Append(sent, Envelope("subscribe", pid)) ELSE sent
    /\ Call("subscribe", subscribe_outcome)
    /\ UNCHANGED <<ws, connected, messages, channel, delivered, nReports,
                   handled, callback, old>>

unsubscribe(pid) ==
    /\ sent' = IF unsubscribe_sends /\ unsubscribe_outcome = "ok"
               THEN Append(sent, Envelope("unsubscribe", pid)) ELSE sent
    /\ Call("unsubscribe", unsubscribe_outcome)
    /\ UNCHANGED <<ws, connected, messages, channel, delivered, nReports,
                   handled, callback, old>>

\* WebSocketApp.close() of the websocket-client library, whose code is not part
\* of the source: it returns None and is taken not to raise
ws_close_outcome == "ok"

\* WebSocketApp.close() of the websocket-client library: it is taken to stop
\* the run loop and close the socket at once, the on_close callback following
\* on the background thread, and to find nothing left to close on an app that
\* is closing or closed already
ws_close == IF channel \in {"connecting", "open"} THEN "closing" ELSE channel

\* the expression self.ws.close() of line 166: the attribute lookup on None
\* raises AttributeError before anything is called
close_call_outcome ==
    IF ws = "None" THEN "'NoneType' object has no attribute 'close'"
    ELSE ws_close_outcome

close_call_channel == IF ws = "None" THEN channel ELSE ws_close

disconnect_unguarded == TRUE

\* line 165: if self.ws
disconnect_guard == ws # "None"

\* disconnect(): if self.ws: self.ws.close(). It assigns no field of the
\* listener; an exception of self.ws.close() would leave the method.
disconnect ==
    /\ channel' = IF disconnect_guard THEN close_call_channel ELSE channel
    /\ Call("disconnect", IF disconnect_guard THEN close_call_outcome ELSE "ok")
    /\ UNCHANGED <<ws, connected, messages, sent, delivered, nReports,
                   handled, callback, old>>

\* connect(), up to thread.start()
connect_start ==
    /\ ws' = "app"
    /\ channel' = "connecting"
    /\ callback' = "idle"
    /\ old' = IF ws = "None" THEN old
              ELSE Append(old, [channel |-> channel, callback |-> callback])
    /\ polls' = 0
    /\ connectRet' = "none"
    /\ Call("connect", "ok")
    /\ UNCHANGED <<connected, messages, sent, delivered, nReports, handled>>

\* connect(): the number of times the wait loop tests the flag
connect_checks == ConnectPolls

\* connect(): one iteration of the wait loop, "if self.connected: return
\* True" then time.sleep(0.5); ret is the value returned, "none" to go on.
\* The loop counter is gone once connect() returns.
connect_iteration(ret) ==
    /\ polls < connect_checks
    /\ IF connected
       THEN ret = "True" /\ polls' = 0
       ELSE ret = "none" /\ polls' = polls + 1

\* connect(): the loop is over, return False
connect_give_up ==
    /\ polls >= connect_checks
    /\ polls' = 0

\* get_messages(): messages = []
get_messages_start ==
    /\ drained' = <<>>
    /\ gmSnap' = Len(delivered)
    /\ Call("get_messages", "ok")
    /\ UNCHANGED taken

\* get_messages(): while not self.messages.empty()
get_messages_test(body, exit) ==
    /\ pc' = IF messages # <<>> THEN body ELSE exit
    /\ UNCHANGED <<wsVars, gmVars, last>>

\* get_messages(): messages.append(self.messages.get()); get() would block
\* on an empty queue, which the only consumer never meets
get_messages_get ==
    /\ messages # <<>>
    /\ drained' = Append(drained, QueueGet(messages)[1])
    /\ messages' = QueueGet(messages)[2]
    /\ taken' = taken + 1
    /\ UNCHANGED <<ws, connected, channel, sent, delivered, nReports, handled,
                   callback, old,
                   gmSnap, last>>

\* get_messages(): return messages; the value returned is the local list
get_messages_return == UNCHANGED <<wsVars, gmVars, last>>

\* the value of a key the dict returned by http_request does not have
NoData ==
    [json |-> FALSE, hasSuccess |-> FALSE, success |-> FALSE, error |-> "None",
     status |-> "None", raw |-> "absent", utf8 |-> TRUE]

\* no http_request call recorded
NoCall ==
    [called |-> FALSE, path |-> "none", method |-> "none",
     reply |-> [code |-> 0, fault |-> "none", body |-> NoData],
     response |-> [raised |-> "none", status |-> 0, hasData |-> FALSE,
                   hasError |-> FALSE, data |-> NoData, error |-> ""]]

----------------------------------------------------------------------------
(* State after construction: WSManager.__init__ and the driver's locals *)

InitCommon ==
    /\ ws = "None"
    /\ connected = FALSE
    /\ messages = <<>>
    /\ channel = "none"
    /\ sent = <<>>
    /\ delivered = <<>>
    /\ nReports = 0
    /\ handled = <<>>
    /\ callback = "idle"
    /\ old = <<>>
    /\ ws_manager = "obj"
    /\ polls = 0
    /\ connectRet = "none"
    /\ retries = 0
    /\ completed = FALSE
    /\ lastPoll = "none"
    /\ warns = {}
    /\ events = {}
    /\ exc = "none"
    /\ exitCode = -1
    /\ http = NoCall
    /\ drained = <<>>
    /\ gmSnap = 0
    /\ taken = 0
    /\ last = [op |-> "none", outcome |-> "ok", again |-> FALSE]

----------------------------------------------------------------------------
(* SpecApi: one WSManager, its methods called in any order *)

InitApi == InitCommon /\ pc = "api_idle"

CanCall == pc = "api_idle"

\* the WebSocketApps created so far
apps == Len(old) + (IF ws = "None" THEN 0 ELSE 1)

ApiConnect ==
    /\ CanCall
    /\ apps < MaxApps
    /\ connect_start
    /\ pc' = "api_connect_wait"
    /\ UNCHANGED <<drvVars, events, gmVars>>

ApiConnectWait ==
    /\ pc = "api_connect_wait"
    /\ \E ret \in {"True", "none"} :
         /\ connect_iteration(ret)
         /\ connectRet' = ret
         /\ pc' = IF ret = "none" THEN pc ELSE "api_idle"
    /\ UNCHANGED <<wsVars, drvVars, events, gmVars, last>>

ApiConnectGiveUp ==
    /\ pc = "api_connect_wait"
    /\ connect_give_up
    /\ connectRet' = "False"
    /\ pc' = "api_idle"
    /\ UNCHANGED <<wsVars, drvVars, events, gmVars, last>>

ApiSubscribe ==
    /\ CanCall
    /\ subscribe_outcome = "ok" => Len(sent) < MaxSent
    /\ subscribe(project_id)
    /\ UNCHANGED <<pc, polls, connectRet, drvVars, events, gmVars>>

ApiUnsubscribe ==
    /\ CanCall
    /\ unsubscribe_sends => Len(sent) < MaxSent
    /\ unsubscribe(project_id)
    /\ UNCHANGED <<pc, polls, connectRet, drvVars, events, gmVars>>

\* events keeps whether disconnect() was ever called on a listener that had
\* never connected
ApiDisconnect ==
    /\ CanCall
    /\ disconnect
    /\ events' = IF ws = "None" THEN events \cup {"disconnect unconnected"}
                 ELSE events
    /\ UNCHANGED <<pc, polls, connectRet, drvVars, gmVars>>

ApiGetMessages ==
    /\ CanCall
    /\ get_messages_start
    /\ pc' = "api_gm_test"
    /\ UNCHANGED <<wsVars, polls, connectRet, drvVars, events>>

ApiGmTest ==
    /\ pc = "api_gm_test"
    /\ get_messages_test("api_gm_get", "api_gm_return")
    /\ UNCHANGED <<polls, connectRet, drvVars, events>>

ApiGmGet ==
    /\ pc = "api_gm_get"
    /\ get_messages_get
    /\ pc' = "api_gm_test"
    /\ UNCHANGED <<polls, connectRet, drvVars, events>>

ApiGmReturn ==
    /\ pc = "api_gm_return"
    /\ get_messages_return
    /\ pc' = "api_idle"
    /\ UNCHANGED <<polls, connectRet, drvVars, events>>

NextApi ==
    \/ ApiConnect \/ ApiConnectWait \/ ApiConnectGiveUp
    \/ ApiSubscribe \/ ApiUnsubscribe \/ ApiDisconnect
    \/ ApiGetMessages \/ ApiGmTest \/ ApiGmGet \/ ApiGmReturn
    \/ Background \/ OldBackground

SpecApi == InitApi /\ [][NextApi]_vars

----------------------------------------------------------------------------
(* The server's HTTP replies and http_request *)

\* response bodies: JSON objects {success, data | error} and text that is no
\* JSON. status is data.status of a project record; error "None": no error key
Statuses == {"analyzing", "analyzed", "error"}
OkBody(st) ==
    [json |-> TRUE, hasSuccess |-> TRUE, success |-> TRUE, error |-> "None",
     status |-> st, raw |-> "json", utf8 |-> TRUE]
FailBody(e) ==
    [json |-> TRUE, hasSuccess |-> TRUE, success |-> FALSE, error |-> e,
     status |-> "None", raw |-> "json", utf8 |-> TRUE]
\* a JSON object without a "success" key, such as {"message": "Not Found"}
NoSuccessBody ==
    [json |-> TRUE, hasSuccess |-> FALSE, success |-> FALSE, error |-> "None",
     status |-> "None", raw |-> "json", utf8 |-> TRUE]
\* a body that is no JSON: its text is all there is to it
TextBody(raw) ==
    [json |-> FALSE, hasSuccess |-> FALSE, success |-> FALSE, error |-> "None",
     status |-> "None", raw |-> raw, utf8 |-> TRUE]
\* a body whose bytes are no UTF-8: decode('utf-8') raises on it
BinaryBody ==
    [json |-> FALSE, hasSuccess |-> FALSE, success |-> FALSE, error |-> "None",
     status |-> "None", raw |-> "bytes", utf8 |-> FALSE]
Bodies ==
    {OkBody(st) : st \in Statuses}
        \cup {FailBody("bad path"), FailBody("None"), NoSuccessBody}
        \cup {TextBody("Internal Server Error"), TextBody(""), BinaryBody}

\* the response codes the server is taken to answer with
Codes == {200, 201, 404, 500}

\* urlopen returns the response for a 2xx code and raises HTTPError otherwise
Is2xx(code) == code \in 200..299

\* no response at all. "refused": the connection cannot be made or times
\* out, urlopen raises URLError; "closed": the server closes the connection
\* before it answers, urlopen lets http.client.RemoteDisconnected through
Faults == {"refused", "closed"}
NoResponse(fault) == [code |-> 0, fault |-> fault, body |-> TextBody("")]

Replies ==
    {NoResponse(fault) : fault \in Faults}
        \cup [code : Codes, fault : {"none"}, body : Bodies]

\* the exception urlopen raises when there is no response
urlopen_raises(fault) ==
    IF fault = "refused" THEN "URLError" ELSE "RemoteDisconnected"

\* the dict http_request returns, or the exception that leaves it
Raised(reply, e) ==
    [raised |-> e, status |-> reply.code, hasData |-> FALSE,
     hasError |-> FALSE, data |-> NoData, error |-> ""]
Returned(reply, hasData) ==
    [raised |-> "none", status |-> reply.code, hasData |-> hasData,
     hasError |-> ~hasData,
     data |-> IF hasData THEN reply.body ELSE NoData,
     error |-> IF hasData THEN "" ELSE reply.body.raw]

\* http_request(path, method, data) against a reply. raised: the exception
\* that leaves it ("none": it returns); hasData / hasError: the keys of the
\* dict returned; data: the parsed body; error: the body's text. Both
\* decode('utf-8') calls stand outside any try that would catch their error.
http_request(reply) ==
    IF reply.code = 0 THEN Raised(reply, urlopen_raises(reply.fault))
    ELSE IF ~reply.body.utf8 THEN Raised(reply, "UnicodeDecodeError")
    ELSE IF Is2xx(reply.code)
    THEN IF reply.body.json THEN Returned(reply, TRUE)
         ELSE Raised(reply, "JSONDecodeError")
    ELSE IF reply.body.json THEN Returned(reply, TRUE)
         ELSE Returned(reply, FALSE)

\* the body shared by test_create_project, test_get_project,
\* test_list_projects, test_migration_rules and the trigger of
\* test_analyze_project: "ok" when response["data"].get("success") holds,
\* otherwise the message of the exception raised
test_request_default_only(reply, default) ==
    LET response == http_request(reply) IN
    IF response.raised # "none" THEN response.raised
    ELSE IF ~response.hasData THEN "'data'"
    ELSE IF response.data.success THEN "ok"
    ELSE default
test_request(reply, default) ==
    LET response == http_request(reply) IN
    IF response.raised # "none" THEN response.raised
    ELSE IF ~response.hasData THEN "'data'"
    ELSE IF response.data.success THEN "ok"
    ELSE IF response.data.error # "None" THEN response.data.error
    ELSE default

test_create_project(reply) == test_request(reply, "Failed to create project")
test_get_project(reply) == test_request(reply, "Failed to get project")
test_list_projects(reply) == test_request(reply, "Failed to list projects")
test_migration_rules(reply) == test_request(reply, "Failed to get migration rules")
analyze_trigger(reply) == test_request(reply, "Failed to start analysis")

----------------------------------------------------------------------------
(* SpecHttp: http_request called on its own, once per request the program
   makes, against every reply *)

\* the requests the program makes
Endpoints ==
    {[path |-> "/projects", method |-> "POST"],
     [path |-> "/projects", method |-> "GET"],
     [path |-> "/projects/id", method |-> "GET"],
     [path |-> "/projects/id/analyze", method |-> "POST"],
     [path |-> "/migration/rules", method |-> "GET"]}

InitHttp == InitCommon /\ pc = "http_idle"

\* http_request(path, method, data): the call, up to its return or raise
HttpCall ==
    /\ pc = "http_idle"
    /\ \E endpoint \in Endpoints, reply \in Replies :
         http' = [called |-> TRUE, path |-> endpoint.path,
                  method |-> endpoint.method, reply |-> reply,
                  response |-> http_request(reply)]
    /\ pc' = "http_done"
    /\ UNCHANGED <<wsVars, ws_manager, polls, connectRet, retries, completed,
                   lastPoll, warns, events, exc, exitCode, gmVars, last>>

\* the caller has taken the result; the next call starts afresh
HttpDone ==
    /\ pc = "http_done"
    /\ http' = NoCall
    /\ pc' = "http_idle"
    /\ UNCHANGED <<wsVars, ws_manager, polls, connectRet, retries, completed,
                   lastPoll, warns, events, exc, exitCode, gmVars, last>>

NextHttp == HttpCall \/ HttpDone

SpecHttp == InitHttp /\ [][NextHttp]_vars

----------------------------------------------------------------------------
(* test_analyze_project's polling loop *)

\* while not completed and retries < max_retries
poll_loop_cond_off_by_one == ~completed /\ retries <= max_retries
poll_loop_cond == ~completed /\ retries < max_retries

\* one iteration's try block: "done" when the fetch succeeds with a status
\* other than "analyzing", "analyzing" when it succeeds with that status,
\* "failed" when test_get_project raises (the bare except swallows it)
poll_outcome(reply) ==
    IF test_get_project(reply) # "ok" THEN "failed"
    ELSE IF reply.body.status # "analyzing" THEN "done"
    ELSE "analyzing"

\* retries += 1 stands after the try/except, so it counts every iteration
retries_counting_successes(outcome) ==
    IF outcome = "failed" THEN retries ELSE retries + 1
retries_after_poll(outcome) == retries + 1

\* ws_manager after "if ws_manager.connect(): ... else: ws_manager = None"
ws_manager_kept(ret) == "obj"
ws_manager_after_connect(ret) == IF ret = "True" THEN "obj" ELSE "None"

\* the summary loop's msg.get('type', 'unknown') raises on a message that is
\* no dict
summary_raises(msgs) == \E i \in 1..Len(msgs) : ~msgs[i].isdict

----------------------------------------------------------------------------
(* Spec: main() *)

Init == InitCommon /\ pc = "main"

\* main(): check_api_health(), sys.exit(1) when it fails
MainStep(healthy) ==
    /\ pc = "main"
    /\ IF healthy
       THEN pc' = "wf_connect" /\ exitCode' = exitCode
       ELSE pc' = "exited" /\ exitCode' = 1
    /\ http' = http
    /\ UNCHANGED <<wsVars, ws_manager, polls, connectRet, retries, completed,
                   lastPoll, warns, events, exc, gmVars, last>>

\* check_api_health() returns True (urlopen returned) or False (it raised)
Main == \E healthy \in BOOLEAN : MainStep(healthy)

\* run_complete_workflow_test: ws_manager.connect() up to thread.start()
WfConnect ==
    /\ pc = "wf_connect"
    /\ connect_start
    /\ events' = events \cup {"connect"}
    /\ pc' = "wf_connect_wait"
    /\ UNCHANGED <<drvVars, gmVars>>

\* connect()'s wait loop; on "return True" the driver keeps the listener
WfConnectWait ==
    /\ pc = "wf_connect_wait"
    /\ \E ret \in {"True", "none"} :
         /\ connect_iteration(ret)
         /\ connectRet' = ret
         /\ pc' = IF ret = "none" THEN pc ELSE "wf_create"
         /\ ws_manager' = IF ret = "none" THEN ws_manager
                          ELSE ws_manager_after_connect(ret)
    /\ UNCHANGED <<wsVars, retries, completed, lastPoll, warns, events, exc,
                   exitCode, http, gmVars, last>>

\* connect() returns False: warn, ws_manager = None
WfConnectGiveUp ==
    /\ pc = "wf_connect_wait"
    /\ connect_give_up
    /\ connectRet' = "False"
    /\ ws_manager' = ws_manager_after_connect("False")
    /\ warns' = warns \cup {"WebSocket connection failed"}
    /\ pc' = "wf_create"
    /\ UNCHANGED <<wsVars, retries, completed, lastPoll, events, exc,
                   exitCode, http, gmVars, last>>

\* a driver step that is one request: on "ok" go to next, otherwise the
\* exception propagates to run_complete_workflow_test's except block
RequestStep(at, name, outcome, next) ==
    /\ pc = at
    /\ events' = events \cup {name}
    /\ IF outcome = "ok"
       THEN pc' = next /\ exc' = exc
       ELSE pc' = "wf_except" /\ exc' = outcome
    /\ UNCHANGED <<wsVars, ws_manager, polls, connectRet, retries, completed,
                   lastPoll, warns, exitCode, http, gmVars, last>>

WfCreate ==
    \E reply \in Replies :
      RequestStep("wf_create", "POST /projects", test_create_project(reply), "wf_list")

WfList ==
    \E reply \in Replies :
      RequestStep("wf_list", "GET /projects", test_list_projects(reply), "wf_get")

WfGet ==
    \E reply \in Replies :
      RequestStep("wf_get", "GET /projects/id", test_get_project(reply), "an_subscribe")

\* test_analyze_project: if ws_manager: ws_manager.subscribe(project_id)
AnSubscribe ==
    /\ pc = "an_subscribe"
    /\ IF ws_manager = "obj"
       THEN /\ subscribe(project_id)
            /\ events' = events \cup {"subscribe"}
            /\ IF subscribe_outcome = "ok"
               THEN pc' = "an_trigger" /\ exc' = exc
               ELSE pc' = "an_except" /\ exc' = subscribe_outcome
       ELSE /\ pc' = "an_trigger"
            /\ UNCHANGED <<wsVars, events, exc, last>>
    /\ UNCHANGED <<ws_manager, polls, connectRet, retries, completed, lastPoll,
                   warns, exitCode, http, gmVars>>

\* POST /projects/{id}/analyze; on success completed = False, retries = 0
AnTrigger ==
    /\ pc = "an_trigger"
    /\ events' = events \cup {"POST /projects/id/analyze"}
    /\ \E reply \in Replies :
         IF analyze_trigger(reply) = "ok"
         THEN pc' = "an_loop" /\ exc' = exc
         ELSE pc' = "an_except" /\ exc' = analyze_trigger(reply)
    /\ completed' = FALSE
    /\ retries' = 0
    /\ UNCHANGED <<wsVars, ws_manager, polls, connectRet, lastPoll, warns,
                   exitCode, http, gmVars, last>>

\* one iteration: time.sleep(5), test_get_project in a try with a bare
\* except, retries += 1
AnPollStep(reply) ==
    /\ pc = "an_loop"
    /\ poll_loop_cond
    /\ events' = events \cup {"poll"}
    /\ lastPoll' = poll_outcome(reply)
    /\ completed' = (poll_outcome(reply) = "done")
    /\ retries' = retries_after_poll(poll_outcome(reply))
    /\ UNCHANGED <<pc, wsVars, ws_manager, polls, connectRet, warns, exc,
                   exitCode, http, gmVars, last>>

AnPoll == \E reply \in Replies : AnPollStep(reply)

\* the loop is left; if not completed: warn("Analysis timed out ...")
AnLoopExit ==
    /\ pc = "an_loop"
    /\ ~poll_loop_cond
    /\ warns' = IF ~completed THEN warns \cup {"Analysis timed out"} ELSE warns
    /\ pc' = "an_unsubscribe"
    /\ UNCHANGED <<wsVars, ws_manager, polls, connectRet, retries, completed,
                   lastPoll, events, exc, exitCode, http, gmVars, last>>

\* test_analyze_project is left, by return or by raise: its locals are gone
AnalyzeLeft ==
    /\ retries' = 0
    /\ completed' = FALSE
    /\ lastPoll' = "none"

\* if ws_manager: ws_manager.unsubscribe(project_id); then return
AnUnsubscribe ==
    /\ pc = "an_unsubscribe"
    /\ IF ws_manager = "obj"
       THEN /\ unsubscribe(project_id)
            /\ events' = events \cup {"unsubscribe"}
            /\ IF unsubscribe_outcome = "ok"
               THEN pc' = "wf_rules" /\ exc' = exc /\ AnalyzeLeft
               ELSE /\ pc' = "an_except" /\ exc' = unsubscribe_outcome
                    /\ UNCHANGED <<retries, completed, lastPoll>>
       ELSE /\ pc' = "wf_rules"
            /\ AnalyzeLeft
            /\ UNCHANGED <<wsVars, events, exc, last>>
    /\ UNCHANGED <<ws_manager, polls, connectRet, warns, exitCode, http,
                   gmVars>>

\* the except block's "if ws_manager:"
except_skips_unsubscribe == FALSE
except_has_listener == ws_manager = "obj"

\* test_analyze_project's except block: error(...), unsubscribe if a
\* listener is attached, raise; an exception raised by that unsubscribe
\* replaces the one in flight
AnExcept ==
    /\ pc = "an_except"
    /\ IF except_has_listener
       THEN /\ unsubscribe(project_id)
            /\ events' = events \cup {"unsubscribe"}
            /\ exc' = IF unsubscribe_outcome = "ok" THEN exc
                      ELSE unsubscribe_outcome
       ELSE UNCHANGED <<wsVars, events, exc, last>>
    /\ pc' = "wf_except"
    /\ AnalyzeLeft
    /\ UNCHANGED <<ws_manager, polls, connectRet, warns, exitCode, http,
                   gmVars>>

WfRules ==
    \E reply \in Replies :
      RequestStep("wf_rules", "GET /migration/rules", test_migration_rules(reply), "wf_summary")

\* if ws_manager: messages = ws_manager.get_messages()
WfSummary ==
    /\ pc = "wf_summary"
    /\ IF ws_manager = "obj"
       THEN /\ get_messages_start
            /\ events' = events \cup {"get_messages"}
            /\ pc' = "wf_gm_test"
       ELSE /\ pc' = "wf_finally"
            /\ UNCHANGED <<gmVars, events, last>>
    /\ UNCHANGED <<wsVars, drvVars, polls, connectRet>>

WfGmTest ==
    /\ pc = "wf_gm_test"
    /\ get_messages_test("wf_gm_get", "wf_gm_return")
    /\ UNCHANGED <<polls, connectRet, drvVars, events>>

WfGmGet ==
    /\ pc = "wf_gm_get"
    /\ get_messages_get
    /\ pc' = "wf_gm_test"
    /\ UNCHANGED <<polls, connectRet, drvVars, events>>

WfGmReturn ==
    /\ pc = "wf_gm_return"
    /\ get_messages_return
    /\ pc' = "wf_count"
    /\ UNCHANGED <<polls, connectRet, drvVars, events>>

\* the per-type count of the summary, then "TEST COMPLETED SUCCESSFULLY"
WfCount ==
    /\ pc = "wf_count"
    /\ IF summary_raises(drained)
       THEN pc' = "wf_except" /\ exc' = "'list' object has no attribute 'get'"
       ELSE pc' = "wf_finally" /\ exc' = exc
    /\ UNCHANGED <<wsVars, ws_manager, polls, connectRet, retries, completed,
                   lastPoll, warns, events, exitCode, http, gmVars, last>>

\* except Exception as e: section("TEST FAILED"), error(str(e)), raise
WfExcept ==
    /\ pc = "wf_except"
    /\ pc' = "wf_finally"
    /\ UNCHANGED <<wsVars, drvVars, polls, connectRet, events, gmVars, last>>

\* finally: if ws_manager: ws_manager.disconnect(). ws_manager is assigned
\* after connect() returned True, so self.ws is a WebSocketApp here.
WfFinally ==
    /\ pc = "wf_finally"
    /\ IF ws_manager = "obj"
       THEN disconnect /\ events' = events \cup {"disconnect"}
       ELSE UNCHANGED <<wsVars, events, last>>
    /\ pc' = "main_exit"
    /\ UNCHANGED <<drvVars, polls, connectRet, gmVars>>

\* main()'s exit code once run_complete_workflow_test is over: it falls off
\* the end when the call returned, sys.exit(1) when it raised e
exit_code_zero(e) == 0
exit_code(e) == IF e = "none" THEN 0 ELSE 1

\* main(): the workflow returned (exit code 0) or raised (sys.exit(1))
MainExit ==
    /\ pc = "main_exit"
    /\ exitCode' = exit_code(exc)
    /\ http' = http
    /\ pc' = "exited"
    /\ UNCHANGED <<wsVars, ws_manager, polls, connectRet, retries, completed,
                   lastPoll, warns, events, exc, gmVars, last>>

Driver ==
    \/ Main \/ WfConnect \/ WfConnectWait \/ WfConnectGiveUp
    \/ WfCreate \/ WfList \/ WfGet
    \/ AnSubscribe \/ AnTrigger \/ AnPoll \/ AnLoopExit \/ AnUnsubscribe
    \/ AnExcept \/ WfRules
    \/ WfSummary \/ WfGmTest \/ WfGmGet \/ WfGmReturn \/ WfCount
    \/ WfExcept \/ WfFinally \/ MainExit

Next == Driver \/ Background

Spec == Init /\ [][Next]_vars

----------------------------------------------------------------------------
(* Properties *)

\* what the queue must have received: the values of the delivered payloads
\* that are JSON, in arrival order
ParsedOf(d) ==
    LET ok == SelectSeq(d, json_parses)
    IN  [i \in 1..Len(ok) |-> json_loads(ok[i])]

\* C1: in test_analyze_project the polling loop makes an iteration only while
\* the analysis is not completed and fewer than 60 iterations were made, so
\* retries never exceeds 60; completed is set exactly by an iteration whose
\* fetch succeeded with a status other than "analyzing"; the loop is left
\* only when completed or after 60 iterations, never by an exception, and
\* leaving it uncompleted prints the timeout warning and goes on to the
\* statement after the loop.
C1_PollingBounded ==
    /\ [](retries <= max_retries)
    /\ [](pc = "an_loop" => (completed <=> lastPoll = "done"))
    /\ [][(retries' = retries + 1) =>
            (pc = "an_loop" /\ pc' = "an_loop" /\ ~completed /\ retries < max_retries)]_vars
    /\ [][(pc = "an_loop" /\ pc' # "an_loop") =>
            /\ completed \/ retries = max_retries
            /\ pc' = "an_unsubscribe"
            /\ exc' = "none"
            /\ ("Analysis timed out" \in warns') <=> ~completed]_vars

\* C1 witness: the loop was left after 60 iterations that never saw the
\* analysis complete, with the warning printed and no exception in flight.
C1_Witness ==
    /\ pc = "an_unsubscribe"
    /\ retries = max_retries
    /\ ~completed
    /\ "Analysis timed out" \in warns
    /\ exc = "none"

\* C2: every subscribe call made while the connection-established flag is
\* false ends with the "WebSocket not connected" exception and hands nothing
\* to ws.send.
C2_SubscribeNotConnected ==
    [][(ApiSubscribe /\ ~connected) =>
         (last'.outcome = "WebSocket not connected" /\ sent' = sent)]_vars

\* C2 witness: subscribe was called after the close callback had run on a
\* listener that had been connected, and failed with "not connected".
C2_Witness ==
    /\ last.op = "subscribe"
    /\ last.outcome = "WebSocket not connected"
    /\ connectRet = "True"
    /\ channel = "closed"
    /\ sent = <<>>

\* C3: every unsubscribe call made while the connection-established flag is
\* false returns normally, hands nothing to ws.send and leaves the listener's
\* flag, queue, channel and ws as they were.
C3_UnsubscribeNoop ==
    [][(ApiUnsubscribe /\ ~connected) =>
         /\ last'.outcome = "ok"
         /\ UNCHANGED <<ws, connected, messages, channel, sent,
                        delivered>>]_vars

\* C3 witness: unsubscribe returned on a listener that was never connected,
\* while messages were not involved and nothing had been sent.
C3_Witness ==
    /\ last.op = "unsubscribe"
    /\ last.outcome = "ok"
    /\ ws = "None"
    /\ ~connected
    /\ sent = <<>>

\* C4: when get_messages() has returned and no payload arrived since it was
\* called, the list returned is exactly the parsed messages not returned by
\* an earlier call, in arrival order, and the queue is empty; so a call right
\* after another returns the empty list.
C4_DrainReturnsAllInOrder ==
    (pc = "api_idle" /\ last.op = "get_messages" /\ gmSnap = Len(delivered)) =>
        /\ drained = SubSeq(ParsedOf(delivered), taken - Len(drained) + 1,
                            Len(ParsedOf(delivered)))
        /\ messages = <<>>

\* C4 witness: get_messages() returned two different messages that were both
\* queued when it was called.
C4_Witness ==
    /\ pc = "api_idle"
    /\ last.op = "get_messages"
    /\ gmSnap = Len(delivered)
    /\ Len(drained) = 2
    /\ drained[1] # drained[2]

\* C5 (as claimed): get_messages() is atomic with respect to the background
\* thread: at the moment it returns the queue is empty.
C5_DrainAtomic ==
    [][(pc = "wf_gm_return" /\ pc' = "wf_count") => messages' = <<>>]_vars

\* C6 (as claimed): before the end-of-run drain every payload delivered to
\* on_message is present in the queue.
C6_AllDeliveredQueued ==
    ("get_messages" \notin events) => Len(messages) = Len(delivered)

\* C6 (amended): before the end-of-run drain the queue holds exactly the
\* delivered payloads that parse as JSON, in arrival order: each of them is
\* queued, none is removed, and a payload that fails to parse is never queued.
C6_ParsedDeliveredQueued ==
    ("get_messages" \notin events) => messages = ParsedOf(delivered)

\* C6 witness: the workflow is about to drain a queue that accumulated two
\* different messages, one of them after a payload's handling had raised.
C6_Witness ==
    /\ pc = "wf_summary"
    /\ ws_manager = "obj"
    /\ Len(messages) = 2
    /\ messages[1] # messages[2]
    /\ nReports > 0

\* the connection's state as the listener's fields show it
ConnRank ==
    IF ws = "None" THEN 0
    ELSE IF connected THEN 2
    ELSE IF channel = "connecting" THEN 1
    ELSE 3

\* C7: the connection only moves forward through unconnected (0), connecting
\* (1), connected (2), disconnected (3); the flag turns true only in the open
\* callback; and once disconnect() was called or the transport is closing or
\* closed, the flag never turns from false to true.
C7_ConnectionOrder ==
    [][/\ ConnRank' >= ConnRank
       /\ (~connected /\ connected') => on_open
       /\ ("disconnect" \in events \/ channel \in {"closing", "closed"})
             => ~(~connected /\ connected')]_vars

\* C7 witness: a listener that was connected and then explicitly
\* disconnected has had its close callback run.
C7_Witness ==
    /\ connectRet = "True"
    /\ "disconnect" \in events
    /\ channel = "closed"
    /\ ~connected

\* C8 (as claimed): once disconnect() has returned the connection-established
\* flag is false.
C8_DisconnectClearsFlag ==
    (pc = "api_idle" /\ last.op = "disconnect") => ~connected

\* C9 (as claimed): the value connect() returns equals the
\* connection-established flag at the moment it returns.
C9_ConnectReturnsFlag ==
    [][(pc = "wf_connect_wait" /\ pc' = "wf_create") =>
         ((connectRet' = "True") <=> connected')]_vars

\* C10: once connect() has returned False the driver holds no listener: it is
\* at project creation or beyond, never calls subscribe, unsubscribe or
\* get_messages, sends no envelope, and no listener exception aborts it.
C10_ContinuesWithoutListener ==
    (connectRet = "False") =>
        /\ ws_manager = "None"
        /\ events \cap {"subscribe", "unsubscribe", "get_messages"} = {}
        /\ sent = <<>>
        /\ ("POST /projects" \notin events) => pc = "wf_create"
        /\ exc \notin {"WebSocket not connected", "Connection is already closed.",
                       "'list' object has no attribute 'get'"}

\* C10 witness: connect() returned False and the workflow ran every step and
\* exited with code 0.
C10_Witness ==
    /\ connectRet = "False"
    /\ pc = "exited"
    /\ exitCode = 0
    /\ {"POST /projects", "GET /projects", "GET /projects/id",
        "POST /projects/id/analyze", "poll", "GET /migration/rules"} \subseteq events

\* C11 (as claimed): whenever run_complete_workflow_test has been left after
\* connect() was invoked, disconnect() has been called on the listener.
C11_AlwaysDisconnects ==
    (pc \in {"main_exit", "exited"} /\ "connect" \in events) =>
        "disconnect" \in events

\* a reply whose body is a JSON object with success false
FailureResponse(reply) == reply.code # 0 /\ reply.body.json /\ ~reply.body.success

\* the names under which the driver's HTTP requests are recorded in events
HttpEvents == {"POST /projects", "GET /projects", "GET /projects/id",
               "POST /projects/id/analyze", "poll", "GET /migration/rules"}

\* the workflow is being aborted with the reply's error text as the message
AbortsWith(reply) ==
    /\ pc' = "wf_except"
    /\ reply.body.error # "None" => exc' = reply.body.error

\* C12: a failure response to project creation, listing, retrieval or rule
\* fetching takes the driver straight to its except block with the server's
\* error text as the exception message, and from the except block on no
\* request is issued any more.
C12_FailureAborts ==
    [][/\ \A reply \in Replies : FailureResponse(reply) =>
            /\ RequestStep("wf_create", "POST /projects",
                           test_create_project(reply), "wf_list") => AbortsWith(reply)
            /\ RequestStep("wf_list", "GET /projects",
                           test_list_projects(reply), "wf_get") => AbortsWith(reply)
            /\ RequestStep("wf_get", "GET /projects/id",
                           test_get_project(reply), "an_subscribe") => AbortsWith(reply)
            /\ RequestStep("wf_rules", "GET /migration/rules",
                           test_migration_rules(reply), "wf_summary") => AbortsWith(reply)
       /\ pc \in {"wf_except", "wf_finally", "main_exit", "exited"} =>
            /\ events' \cap HttpEvents = events \cap HttpEvents
            /\ pc' \in {"wf_except", "wf_finally", "main_exit", "exited"}]_vars

\* C12 witness: project creation was answered {success: false, error: "bad
\* path"}; the driver is in its except block with exactly that message and
\* has issued no other request.
C12_Witness ==
    /\ pc = "wf_except"
    /\ exc = "bad path"
    /\ events \cap HttpEvents = {"POST /projects"}

\* a reply on which test_get_project raises: no response at all, or a
\* failure response
FetchFailure(reply) ==
    reply.code = 0 \/ ~reply.body.utf8 \/ FailureResponse(reply)

\* every reply on which the fetch fails makes the poll a failed one
FetchFailuresFail ==
    \A reply \in Replies : FetchFailure(reply) => poll_outcome(reply) = "failed"

\* C13: every failed fetch (transport error, undecodable body or failure
\* response) is a failed poll, and a polling iteration (the only step in the
\* loop that touches retries, lastPoll or events) whose fetch failed stays in
\* the loop, raises nothing, leaves completed false and still adds one to
\* retries.
C13_PollFailureSwallowed ==
    [][(/\ pc = "an_loop"
        /\ <<retries, lastPoll, events>>' # <<retries, lastPoll, events>>) =>
          /\ FetchFailuresFail
          /\ lastPoll' = "failed" =>
                /\ pc' = "an_loop"
                /\ exc' = "none"
                /\ ~completed'
                /\ retries' = retries + 1]_vars

\* C13 witness: the sixtieth iteration's fetch failed; it was counted, and
\* the loop is about to end without any exception.
C13_Witness ==
    /\ pc = "an_loop"
    /\ lastPoll = "failed"
    /\ retries = max_retries
    /\ ~completed
    /\ exc = "none"

\* C14: on_message takes a payload only when the callback before it has
\* returned, and leaves the connection and the flag alone. For a payload
\* that does not parse it reports and leaves the queue and the classifier
\* alone. For one that parses it appends the message, once, at the tail of
\* the queue, and then calls the classifier on it before it returns: every
\* parsed arrival but the one being handled has been dispatched.
C14_OnMessage ==
    [][/\ delivered' # delivered =>
            LET p == delivered'[Len(delivered')] IN
            /\ callback = "idle"
            /\ delivered' = Append(delivered, p)
            /\ channel' = channel
            /\ connected' = connected
            /\ handled' = handled
            /\ ~json_parses(p) =>
                  /\ nReports' = nReports + 1
                  /\ messages' = messages
                  /\ callback' = "idle"
            /\ json_parses(p) =>
                  /\ messages' = Append(messages, json_loads(p))
                  /\ callback' = p
       /\ (callback # "idle" /\ callback' = "idle") =>
            /\ Len(handled') = Len(handled) + 1
            /\ messages' = messages
            /\ delivered' = delivered
            /\ channel' = channel
            /\ connected' = connected
       /\ Len(ParsedOf(delivered')) =
            Len(handled') + (IF callback' = "idle" THEN 0 ELSE 1)]_vars

\* C14 witness: an unparseable payload was reported on an open, connected
\* channel, and the parsed one that followed was queued and classified.
C14_Witness ==
    /\ delivered = <<"not json", "{\"type\":\"progress\"}">>
    /\ channel = "open"
    /\ connected
    /\ callback = "idle"
    /\ nReports = 1
    /\ messages = <<json_loads("{\"type\":\"progress\"}")>>
    /\ handled = <<"progress">>

\* C15 (as claimed): for a response whose code is not 2xx, http_request
\* returns the code with the parsed body, as it is, under data when the body
\* is JSON, and with the raw body under error and no data key when it is
\* not; with no response at all an exception leaves http_request.
C15_NonSuccessResponses ==
    http.called =>
        LET reply == http.reply
            response == http.response
        IN  /\ (reply.code # 0 /\ reply.code \notin 200..299 /\ reply.body.json) =>
                  /\ response.raised = "none"
                  /\ response.status = reply.code
                  /\ response.hasData
                  /\ response.data = reply.body
                  /\ ~response.hasError
            /\ (reply.code # 0 /\ reply.code \notin 200..299 /\ ~reply.body.json) =>
                  /\ response.raised = "none"
                  /\ response.status = reply.code
                  /\ response.hasError
                  /\ response.error = reply.body.raw
                  /\ ~response.hasData
            /\ reply.code = 0 => response.raised # "none"

\* the requests a complete workflow has made
WorkflowRequests ==
    {"POST /projects", "GET /projects", "GET /projects/id",
     "POST /projects/id/analyze", "GET /migration/rules"}

\* C16: a failed health probe exits with 1 before any workflow step; a
\* successful one starts the workflow; the workflow's end exits with 0 when
\* it returned and with 1 when it raised; so an exit with 0 has seen every
\* workflow request made and no exception, and there is no exit code other
\* than 0 and 1.
C16_ExitCode ==
    [][/\ MainStep(FALSE) =>
            /\ pc' = "exited" /\ exitCode' = 1
            /\ events' = {} /\ channel' = "none" /\ ws' = "None"
       /\ MainStep(TRUE) => pc' = "wf_connect" /\ exitCode' = -1
       /\ (pc = "main_exit" /\ pc' = "exited") =>
            /\ exc = "none" => exitCode' = 0
            /\ exc # "none" => exitCode' = 1
       /\ (pc' = "exited") = (exitCode' \in {0, 1})
       /\ (pc' = "exited" /\ exitCode' = 0) =>
            /\ exc' = "none"
            /\ "connect" \in events'
            /\ WorkflowRequests \subseteq events']_vars

\* C16 witness: the health probe succeeded, every step was taken, nothing
\* was raised, and the process exited with 0.
C16_Witness ==
    /\ pc = "exited"
    /\ exitCode = 0
    /\ exc = "none"
    /\ "GET /migration/rules" \in events

\* C17: disconnect() returns without raising whatever the state of the
\* connection (never connected, connecting, open, closing, closed) and however
\* often it is called; on a listener that never connected it changes nothing,
\* and a call made when the call before it was disconnect() too leaves the
\* listener, its connection included, as the first call left it.
C17_DisconnectIdempotent ==
    [][ApiDisconnect =>
          /\ last'.outcome = "ok"
          /\ (ws = "None" \/ last.op = "disconnect") => wsVars' = wsVars]_vars

\* C17 witness: disconnect() was called on the listener before it ever
\* connected, and later twice in a row on its connection; every call
\* returned, and the connection is on its way down.
C17_Witness ==
    /\ "disconnect unconnected" \in events
    /\ last.op = "disconnect"
    /\ last.again
    /\ last.outcome = "ok"
    /\ ws = "app"
    /\ channel = "closing"

\* the driver is inside test_analyze_project
InAnalyze ==
    pc \in {"an_subscribe", "an_trigger", "an_loop", "an_unsubscribe", "an_except"}

\* C18: with a listener attached, the analyze request is made only after the
\* subscribe envelope was sent and before any poll or unsubscribe; a poll is
\* made only after a successful trigger and before any unsubscribe; the
\* success path's unsubscribe comes when polling has ended; and
\* test_analyze_project is left, by return or by raise, only after an
\* unsubscribe call, which is the listener's latest call.
C18_AnalyzeOrder ==
    [][ws_manager = "obj" =>
          /\ (pc = "an_trigger" /\ pc' # pc) =>
                /\ Len(sent) >= 1
                /\ sent[1] = Envelope("subscribe", project_id)
                /\ "POST /projects/id/analyze" \notin events
                /\ "poll" \notin events
                /\ "unsubscribe" \notin events
          /\ (\E reply \in Replies : AnPollStep(reply)) =>
                /\ "POST /projects/id/analyze" \in events
                /\ "unsubscribe" \notin events
          /\ (pc = "an_unsubscribe" /\ pc' # pc) =>
                /\ completed \/ retries = max_retries
                /\ "unsubscribe" \notin events
                /\ "unsubscribe" \in events'
          /\ (InAnalyze /\ ~InAnalyze') =>
                /\ "subscribe" \in events'
                /\ "unsubscribe" \in events'
                /\ last'.op = "unsubscribe"]_vars

\* C18 witness: the trigger failed after the subscribe envelope went out;
\* the except block sent the unsubscribe envelope and the exception went on.
C18_Witness ==
    /\ pc = "wf_except"
    /\ exc = "Failed to start analysis"
    /\ "poll" \notin events
    /\ sent = <<Envelope("subscribe", project_id),
                Envelope("unsubscribe", project_id)>>

\* C19: when the close callback has cleared the flag after connect() returned
\* True and before test_analyze_project subscribes, subscribe raises
\* "WebSocket not connected"; from then on the exception stays in flight,
\* the analyze request is never made, no envelope is ever sent, and the
\* process exits with 1.
C19_CloseBeforeAnalysis ==
    [][/\ (pc = "an_subscribe" /\ ws_manager = "obj" /\ ~connected /\ pc' # pc) =>
            /\ pc' = "an_except"
            /\ exc' = "WebSocket not connected"
            /\ last'.op = "subscribe"
       /\ exc = "WebSocket not connected" =>
            /\ exc' = exc
            /\ connectRet' = "True"
            /\ ~connected'
            /\ "POST /projects/id/analyze" \notin events'
            /\ "poll" \notin events'
            /\ sent' = <<>>
            /\ pc' \in {"an_except", "wf_except", "wf_finally", "main_exit", "exited"}
            /\ pc' = "exited" => exitCode' = 1]_vars

\* C19 witness: connect() returned True, the transport closed, subscribe
\* raised, and the process has exited with 1 without sending anything.
C19_Witness ==
    /\ pc = "exited"
    /\ exitCode = 1
    /\ exc = "WebSocket not connected"
    /\ connectRet = "True"
    /\ channel = "closed"
    /\ sent = <<>>
    /\ "unsubscribe" \in events

\* C20 (as claimed): whatever was received over the channel, a workflow that
\* got as far as the end-of-run message summary completes and the process
\* exits with 0, as it does when nothing was received.
C20_MessagesNeverAbort ==
    (pc = "exited" /\ "get_messages" \in events) => exitCode = 0

====
